---- MODULE Spec2Model ----
(***************************************************************************)
(* Model of monitor.py: the alert ledger (class Database), the video       *)
(* normaliser (get_videos), the notifier (send_slack_alert) and the        *)
(* orchestrator (main), started again and again by an external scheduler.  *)
(*                                                                         *)
(* The ledger is the sqlite table `videos`, kept as a set of rows.  The    *)
(* column checked_at (a wall-clock string) is not modelled: no decision    *)
(* of the program reads it.  View counts are scaled: THRESHOLD stands for  *)
(* the configured threshold (10000 by default) and the counts range over   *)
(* 0..MaxViews, below, at and above it.                                    *)
(*                                                                         *)
(* Spec        is main run repeatedly, one step per statement of its loops.*)
(* SpecStorage is Spec with sqlite errors in the Database calls.           *)
(* SpecDb      is any sequence of direct calls of the Database methods.    *)
(* SpecNotify  is direct calls of send_slack_alert.                        *)
(* SpecFetch   is one direct call of get_videos on a long item list.       *)
(***************************************************************************)
EXTENDS Integers, Sequences, FiniteSets, TLC

\* ---- bounds ----
MaxAccounts == 2      \* length of the configured account list
MaxVideos   == 2      \* posts in one account's itemList
MaxViews    == 2      \* largest playCount
MaxItems    == 11     \* posts in the itemList given to get_videos directly

\* ---- program constants ----
THRESHOLD   == 1      \* int(os.getenv('THRESHOLD', '10000')), scaled
RecentLimit == 10     \* itemList[:10]
HTTP_OK     == 200    \* response.status_code == 200
None        == -1     \* Python None where an integer is expected (JSON null)

Usernames == {"a", "b"}
VideoIds  == {"v1", "v2"}
NoId      == ""                      \* item.get('id') is None or empty
Views     == 0..MaxViews
Webhooks  == {"", "https://hooks"}   \* SLACK_WEBHOOK: empty or configured

\* The id whose delivery history is recorded.  The program treats all ids
\* alike, so what holds for this one holds for each.
watched == "v1"

\* Sequences over S of length 0..n
RECURSIVE SeqsUpTo(_, _)
SeqsUpTo(S, n) ==
    IF n = 0 THEN {<<>>}
    ELSE LET shorter == SeqsUpTo(S, n - 1)
         IN  shorter \cup {Append(s, x) : s \in {t \in shorter : Len(t) = n - 1}, x \in S}

\* The configured lists: the handles are interchangeable, so the first one is
\* always "a"; a list may name a handle twice.
AccountLists == {l \in SeqsUpTo(Usernames, MaxAccounts) : l = <<>> \/ l[1] = "a"}

\* ---- Database ----------------------------------------------------------
\* CREATE TABLE IF NOT EXISTS videos (...): a missing table becomes the
\* empty table, an existing one is kept.
init(db) == db

\* SELECT alert_sent FROM videos WHERE video_id=?  (all matching rows)
select_alert_sent(db, video_id) == {r \in db : r.video_id = video_id}

\* c.fetchone() is None
fetchone_is_none(db, video_id) == select_alert_sent(db, video_id) = {}

\* Variant: the alert_sent column is not consulted.
should_alert_ignores_sent(db, video_id, views) == views >= THRESHOLD

\* Variant: a strict comparison with the threshold.
should_alert_gt(db, video_id, views) ==
    /\ views > THRESHOLD
    /\ \/ fetchone_is_none(db, video_id)
       \/ (CHOOSE r \in select_alert_sent(db, video_id) : TRUE).alert_sent = 0

\* Variant: `views >= THRESHOLD and result is None or result[0] == 0`, the
\* condition without its parentheses.
should_alert_precedence(db, video_id, views) ==
    \/ views >= THRESHOLD /\ fetchone_is_none(db, video_id)
    \/ /\ ~fetchone_is_none(db, video_id)
       /\ (CHOOSE r \in select_alert_sent(db, video_id) : TRUE).alert_sent = 0

\* Database.should_alert: views >= THRESHOLD and (result is None or result[0] == 0)
should_alert(db, video_id, views) ==
    /\ views >= THRESHOLD
    /\ \/ fetchone_is_none(db, video_id)
       \/ (CHOOSE r \in select_alert_sent(db, video_id) : TRUE).alert_sent = 0

\* views >= THRESHOLD raises TypeError when views is None
should_alert_raises(views) == views = None

\* Variant: the stored count never decreases.
save_max(db, video_id, username, views) ==
    LET old == {r.views : r \in {q \in db : q.video_id = video_id}}
        kept == IF \E n \in old : n > views THEN CHOOSE n \in old : n > views ELSE views
    IN  {r \in db : r.video_id # video_id}
            \cup {[video_id |-> video_id, username |-> username,
                   views |-> kept, alert_sent |-> 0]}

\* Variant: video_id is no primary key, INSERT adds a row.
save_insert_only(db, video_id, username, views) ==
    db \cup {[video_id |-> video_id, username |-> username,
              views |-> views, alert_sent |-> 0]}

\* Database.save: INSERT OR REPLACE INTO videos (video_id, username, views,
\* checked_at).  REPLACE deletes the row that holds the primary key, then
\* inserts the new row; alert_sent is not in the column list and takes its
\* DEFAULT 0.
save(db, video_id, username, views) ==
    {r \in db : r.video_id # video_id}
        \cup {[video_id |-> video_id, username |-> username,
               views |-> views, alert_sent |-> 0]}

\* Variant: the UPDATE is never committed.
mark_sent_nocommit(db, video_id) == db

\* Variant: the UPDATE has no WHERE clause.
mark_sent_all_rows(db, video_id) == {[r EXCEPT !.alert_sent = 1] : r \in db}

\* Variant: UPDATE videos SET alert_sent = 1 - alert_sent WHERE video_id=?
mark_sent_toggle(db, video_id) ==
    {IF r.video_id = video_id THEN [r EXCEPT !.alert_sent = 1 - r.alert_sent] ELSE r
        : r \in db}

\* Database.mark_sent: UPDATE videos SET alert_sent=1 WHERE video_id=?
mark_sent(db, video_id) ==
    {IF r.video_id = video_id THEN [r EXCEPT !.alert_sent = 1] ELSE r : r \in db}

\* ---- get_videos --------------------------------------------------------
\* What temp/content_metadata/<id>.json holds after the scrape: has_file is
\* os.path.exists(video_file), has_playCount says whether stats holds the key
\* playCount, playCount is its value (None for a JSON null).
FileStates ==
    {[has_file |-> FALSE, has_playCount |-> FALSE, playCount |-> 0],
     [has_file |-> TRUE,  has_playCount |-> FALSE, playCount |-> 0]}
    \cup {[has_file |-> TRUE, has_playCount |-> TRUE, playCount |-> n]
            : n \in Views \cup {None}}

\* What the scraper produced for one account: items are the ids of the posts
\* of user_data['itemList'] (NoId: a post without id), content the content
\* files.  outcome "ok": the user file exists; "nodata": the user file does
\* not exist; "error": a statement of the try block raised after the items
\* had been read.
RawFetches ==
    {[outcome |-> o, items |-> it, content |-> c]
        : o \in {"ok", "error"},
          it \in SeqsUpTo(VideoIds \cup {NoId}, MaxVideos),
          c \in [VideoIds -> FileStates]}
    \cup {[outcome |-> "nodata", items |-> <<>>, content |-> c]
            : c \in {[v \in VideoIds |->
                        [has_file |-> FALSE, has_playCount |-> FALSE, playCount |-> 0]]}}

\* Variant: the list is not cut.
first_items_all(items) == items

\* user_data.get('itemList', [])[:10]
first_items(items) == SubSeq(items, 1, IF Len(items) < RecentLimit THEN Len(items) ELSE RecentLimit)

\* stats.get('playCount', 0)
play_count(file) == IF file.has_playCount THEN file.playCount ELSE 0

\* the for-item loop: skip a post without id, append a record when the
\* content file exists
RECURSIVE normalize(_, _, _)
normalize(username, items, content) ==
    IF items = <<>> THEN <<>>
    ELSE LET video_id == Head(items)
             rest == normalize(username, Tail(items), content)
         IN  IF video_id = NoId THEN rest
             ELSE IF ~content[video_id].has_file THEN rest
             ELSE <<[video_id |-> video_id, username |-> username,
                     views |-> play_count(content[video_id])]>> \o rest

\* Variant: the except branch returns the records gathered so far.
get_videos_partial(username, raw) ==
    IF raw.outcome = "nodata" THEN <<>>
    ELSE normalize(username, first_items(raw.items), raw.content)

\* get_videos: [] when the user file is missing or when anything raised
get_videos(username, raw) ==
    IF raw.outcome = "ok"
      THEN normalize(username, first_items(raw.items), raw.content)
      ELSE <<>>

\* The records get_videos can return for an account.  Two records of one
\* list with the same id come from the same content file and are equal.
Records(username) ==
    {[video_id |-> v, username |-> username, views |-> n]
        : v \in VideoIds, n \in Views \cup {None}}

\* ---- send_slack_alert --------------------------------------------------
\* What requests.post does: raise, or answer with a status code.
Responses ==
    {[raised |-> FALSE, status_code |-> HTTP_OK],
     [raised |-> FALSE, status_code |-> 500],
     [raised |-> TRUE,  status_code |-> 0]}

send_slack_alert(webhook, response) ==
    IF webhook = "" THEN FALSE
    ELSE IF response.raised THEN FALSE
    ELSE response.status_code = HTTP_OK

\* What the content file holds under the key desc: has_desc says whether the
\* key is there, desc is its value (Null for a JSON null).
Null == "null"
Descs ==
    {[has_desc |-> FALSE, desc |-> ""]}
        \cup {[has_desc |-> TRUE, desc |-> d] : d \in {Null, "", "caption"}}

\* video_data.get('desc', 'No title')
title(desc) == IF desc.has_desc THEN desc.desc ELSE "No title"

\* The message is built before the try: f"{video['views']:,}" raises TypeError
\* for None, video['title'][:200] raises TypeError for None.
message_raises(video_title, views) == video_title = Null \/ views = None

\* send_slack_alert as its caller sees it: the value returned, or the
\* exception that leaves it.
send_slack_alert_outcome(webhook, video_title, views, response) ==
    IF webhook = "" THEN "False"
    ELSE IF message_raises(video_title, views) THEN "TypeError"
    ELSE IF send_slack_alert(webhook, response) THEN "True"
    ELSE "False"

\* ---- state -------------------------------------------------------------
\* The list `videos` of main is consumed front to back and nothing reads a
\* record before the loop reaches it, so the state keeps the record the loop
\* is at (video) and the number of records after it (pending); the content
\* of a later record is drawn when the loop reaches it.
VARIABLES
    SLACK_WEBHOOK,  \* configuration, read once
    ACCOUNTS,       \* configuration, read once
    table,          \* rows of the table videos in monitor_state.db
    pc,             \* position of main: idle, get_videos, save, should_alert,
                    \* send_slack_alert, mark_sent, done; crashed when an
                    \* exception left main
    acct,           \* index of `account` in ACCOUNTS
    video,          \* main's loop variable `video`
    pending,        \* records of `videos` after `video`
    new_alerts,     \* main's counter
    total_videos,   \* main's counter
    delivered,      \* history: {watched} once send_slack_alert returned True
                    \* for it
    failed,         \* history: {watched} while its latest delivery attempt is
                    \* a failed one
    failedNow,      \* history: {watched} once a delivery of it failed in the
                    \* current run
    lastFetch,      \* history: outcome of the latest get_videos
    seen,           \* ids of the records of `videos` up to `video`
    rising,         \* history: the save of this iteration replaced a row that
                    \* was below the threshold and unsent by a count at or
                    \* above the threshold
    call,           \* history: the latest direct call of a Database method
    sinceMark,      \* history: ids marked by mark_sent with no write since
    before,         \* history: the table before the latest direct call
    notify,         \* history: the latest direct call of send_slack_alert
    fetch,          \* history: the latest direct call of get_videos
    markedNow       \* history: the ids mark_sent marked in the current run

vars == <<SLACK_WEBHOOK, ACCOUNTS, table, pc, acct, video, pending,
          new_alerts, total_videos, delivered, failed, failedNow,
          lastFetch, seen, rising, call, sinceMark, before, notify, fetch,
          markedNow>>

config == <<SLACK_WEBHOOK, ACCOUNTS>>
history == <<delivered, failed, failedNow, lastFetch>>
direct == <<call, sinceMark, before, notify, fetch>>
dbtrace == <<direct, markedNow>>
mainvars == <<SLACK_WEBHOOK, ACCOUNTS, pc, acct, video, pending,
              new_alerts, total_videos, delivered, failed, failedNow,
              lastFetch, seen, rising, markedNow>>

NoCall == [name |-> "none", video_id |-> NoId, username |-> "", views |-> 0,
           result |-> "None"]

NoNotify == [webhook |-> "", desc |-> [has_desc |-> FALSE, desc |-> ""],
             file |-> [has_file |-> FALSE, has_playCount |-> FALSE, playCount |-> 0],
             response |-> [raised |-> TRUE, status_code |-> 0],
             result |-> "None"]

NoFetch == [username |-> "", outcome |-> "none", items |-> <<>>,
            content |-> [v \in VideoIds |->
                [has_file |-> FALSE, has_playCount |-> FALSE, playCount |-> 0]],
            result |-> <<>>]

NoVideo == [video_id |-> NoId, username |-> "", views |-> 0]

Rows == [video_id : VideoIds, username : Usernames,
         views : Views \cup {None}, alert_sent : {0, 1}]

TypeOK ==
    /\ SLACK_WEBHOOK \in Webhooks
    /\ ACCOUNTS \in AccountLists
    /\ table \subseteq Rows
    /\ pc \in {"idle", "get_videos", "save", "should_alert",
               "send_slack_alert", "mark_sent", "done", "crashed"}
    /\ acct \in 0..MaxAccounts
    /\ video \in {NoVideo} \cup UNION {Records(u) : u \in Usernames}
    /\ pending \in 0..MaxVideos
    /\ new_alerts \in 0..(MaxAccounts * MaxVideos)
    /\ total_videos \in 0..(MaxAccounts * MaxVideos)
    /\ delivered \subseteq {watched}
    /\ failed \subseteq {watched} /\ failedNow \subseteq {watched}
    /\ lastFetch \in {"none", "ok", "nodata", "error"}
    /\ seen \subseteq VideoIds
    /\ rising \in BOOLEAN
    /\ call \in [name : {"none", "save", "should_alert", "mark_sent"},
                 video_id : VideoIds \cup {NoId}, username : Usernames \cup {""},
                 views : Views \cup {None},
                 result : {"None", "True", "False", "TypeError"}]
    /\ sinceMark \subseteq VideoIds
    /\ before \subseteq Rows
    /\ notify \in [webhook : Webhooks, desc : Descs, file : FileStates,
                   response : Responses,
                   result : {"None", "True", "False", "TypeError"}]
    /\ fetch.username \in Usernames \cup {""}
    /\ fetch.outcome \in {"none", "ok", "nodata", "error"}
    /\ fetch.items \in Seq(VideoIds \cup {NoId}) /\ Len(fetch.items) <= MaxItems
    /\ fetch.content \in [VideoIds -> FileStates]
    /\ fetch.result \in Seq(Records(fetch.username))
    /\ markedNow \subseteq VideoIds

\* The state before the first run: any configuration, no database file.
Init ==
    /\ SLACK_WEBHOOK \in Webhooks
    /\ ACCOUNTS \in AccountLists
    /\ table = {}
    /\ pc = "idle"
    /\ acct = 0
    /\ video = NoVideo
    /\ pending = 0
    /\ new_alerts = 0
    /\ total_videos = 0
    /\ delivered = {}
    /\ failed = {}
    /\ failedNow = {}
    /\ lastFetch = "none"
    /\ seen = {}
    /\ rising = FALSE
    /\ call = NoCall
    /\ sinceMark = {}
    /\ before = {}
    /\ notify = NoNotify
    /\ fetch = NoFetch
    /\ markedNow = {}

\* What main sees of one call get_videos(username): how the fetch ended, the
\* length of the returned list and its first record.
Fetched ==
    [username \in Usernames |->
        {LET vs == get_videos(username, raw)
         IN  [outcome |-> raw.outcome, len |-> Len(vs),
              first |-> IF vs = <<>> THEN NoVideo ELSE Head(vs)]
           : raw \in RawFetches}]

\* ---- main --------------------------------------------------------------
\* End of one iteration of `for account in ACCOUNTS` (after time.sleep(2)
\* or after the except branch): the next account, or the totals.
NextAccount ==
    /\ video' = NoVideo
    /\ pending' = 0
    /\ seen' = {}
    /\ rising' = FALSE
    /\ IF acct < Len(ACCOUNTS)
         THEN acct' = acct + 1 /\ pc' = "get_videos"
         ELSE acct' = acct /\ pc' = "done"

\* End of one iteration of `for video in videos`.
NextVideo ==
    IF pending > 0
      THEN /\ video' \in {r \in Records(ACCOUNTS[acct]) :
                            r.video_id \in seen =>
                                \E row \in table : /\ row.video_id = r.video_id
                                                   /\ row.views = r.views}
           /\ seen' = seen \cup {video'.video_id}
           /\ pending' = pending - 1
           /\ pc' = "save"
           /\ acct' = acct
           /\ rising' = FALSE
      ELSE NextAccount

\* The scheduler starts main; a configuration error returns at once.
MainConfigError ==
    /\ pc \in {"idle", "done"}
    /\ SLACK_WEBHOOK = "" \/ ACCOUNTS = <<>>
    /\ pc' = "done"
    /\ UNCHANGED <<config, table, acct, video, pending, new_alerts, total_videos,
                   history, seen, rising, dbtrace>>

\* Variant: the check `if not SLACK_WEBHOOK: return` is missing.
MainStartNoWebhookCheck ==
    /\ pc \in {"idle", "done"}
    /\ ACCOUNTS # <<>>
    /\ table' = init(table)
    /\ new_alerts' = 0
    /\ total_videos' = 0
    /\ acct' = 1
    /\ video' = NoVideo
    /\ pending' = 0
    /\ pc' = "get_videos"
    /\ failedNow' = {}
    /\ markedNow' = {}
    /\ seen' = {}
    /\ rising' = FALSE
    /\ UNCHANGED <<config, delivered, failed, lastFetch, direct>>

\* The scheduler starts main: db = Database(), the counters, the first account.
MainStart ==
    /\ pc \in {"idle", "done"}
    /\ SLACK_WEBHOOK # "" /\ ACCOUNTS # <<>>
    /\ table' = init(table)
    /\ new_alerts' = 0
    /\ total_videos' = 0
    /\ acct' = 1
    /\ video' = NoVideo
    /\ pending' = 0
    /\ pc' = "get_videos"
    /\ failedNow' = {}
    /\ markedNow' = {}
    /\ seen' = {}
    /\ rising' = FALSE
    /\ UNCHANGED <<config, delivered, failed, lastFetch, direct>>

\* videos = get_videos(account); total_videos += len(videos); an empty list
\* ends the iteration for this account.
GetVideos ==
    /\ pc = "get_videos"
    /\ \E f \in Fetched[ACCOUNTS[acct]] :
         /\ lastFetch' = f.outcome
         /\ total_videos' = total_videos + f.len
         /\ IF f.len = 0
              THEN NextAccount
              ELSE /\ video' = f.first
                   /\ pending' = f.len - 1
                   /\ pc' = "save"
                   /\ acct' = acct
                   /\ seen' = {f.first.video_id}
                   /\ rising' = FALSE
    /\ UNCHANGED <<config, table, new_alerts, delivered, failed, failedNow, dbtrace>>

\* db.save(video['video_id'], video['username'], video['views'])
Save ==
    /\ pc = "save"
    /\ table' = save(table, video.video_id, video.username, video.views)
    /\ pc' = "should_alert"
    /\ rising' = /\ video.views # None
                 /\ video.views >= THRESHOLD
                 /\ \E r \in table : /\ r.video_id = video.video_id
                                     /\ r.views # None
                                     /\ r.views < THRESHOLD
                                     /\ r.alert_sent = 0
    /\ UNCHANGED <<config, acct, video, pending, seen, new_alerts,
                   total_videos, history, dbtrace>>

\* if db.should_alert(video['video_id'], video['views']): a TypeError goes
\* to the except branch of the account.
ShouldAlert ==
    /\ pc = "should_alert"
    /\ IF should_alert_raises(video.views)
         THEN NextAccount
         ELSE IF should_alert(table, video.video_id, video.views)
                THEN pc' = "send_slack_alert" /\ UNCHANGED <<acct, video, pending, seen, rising>>
                ELSE NextVideo
    /\ UNCHANGED <<config, table, new_alerts, total_videos, history, dbtrace>>

\* Variant: db.mark_sent runs whatever send_slack_alert returned.
SendSlackAlertMarksAnyway ==
    /\ pc = "send_slack_alert"
    /\ \E response \in Responses :
         /\ pc' = "mark_sent"
         /\ UNCHANGED <<acct, video, pending, seen, rising>>
         /\ IF send_slack_alert(SLACK_WEBHOOK, response)
              THEN /\ delivered' = delivered \cup ({video.video_id} \cap {watched})
                   /\ failed' = failed \ {video.video_id}
                   /\ UNCHANGED failedNow
              ELSE /\ failed' = failed \cup ({video.video_id} \cap {watched})
                   /\ failedNow' = failedNow \cup ({video.video_id} \cap {watched})
                   /\ UNCHANGED delivered
    /\ UNCHANGED <<config, table, new_alerts, total_videos, lastFetch, dbtrace>>

\* if send_slack_alert(video): a failure moves on to the next video.
SendSlackAlert ==
    /\ pc = "send_slack_alert"
    /\ \E response \in Responses :
         IF send_slack_alert(SLACK_WEBHOOK, response)
           THEN /\ pc' = "mark_sent"
                /\ delivered' = delivered \cup ({video.video_id} \cap {watched})
                /\ failed' = failed \ {video.video_id}
                /\ UNCHANGED <<failedNow, acct, video, pending, seen, rising>>
           ELSE /\ NextVideo
                /\ failed' = failed \cup ({video.video_id} \cap {watched})
                /\ failedNow' = failedNow \cup ({video.video_id} \cap {watched})
                /\ UNCHANGED delivered
    /\ UNCHANGED <<config, table, new_alerts, total_videos, lastFetch, dbtrace>>

\* send_slack_alert(video) raises while it builds the message (the title of
\* the record is None; its views are not, should_alert compared them):
\* `except Exception` of the account loop, next account.  No notification
\* was delivered.
SendSlackAlertRaises ==
    /\ pc = "send_slack_alert"
    /\ send_slack_alert_outcome(SLACK_WEBHOOK, Null, video.views,
                                CHOOSE response \in Responses : TRUE) = "TypeError"
    /\ NextAccount
    /\ failed' = failed \cup ({video.video_id} \cap {watched})
    /\ failedNow' = failedNow \cup ({video.video_id} \cap {watched})
    /\ UNCHANGED <<config, table, new_alerts, total_videos, delivered, lastFetch,
                   dbtrace>>

\* db.mark_sent(video['video_id']); new_alerts += 1
MarkSent ==
    /\ pc = "mark_sent"
    /\ table' = mark_sent(table, video.video_id)
    /\ new_alerts' = new_alerts + 1
    /\ markedNow' = markedNow \cup {video.video_id}
    /\ NextVideo
    /\ UNCHANGED <<config, total_videos, history, direct>>

Next ==
    \/ MainConfigError
    \/ MainStart
    \/ GetVideos
    \/ Save
    \/ ShouldAlert
    \/ SendSlackAlert
    \/ SendSlackAlertRaises
    \/ MarkSent

Spec == Init /\ [][Next]_vars

\* ---- main with storage failures ----------------------------------------
\* Every Database method opens the file with sqlite3.connect and may raise
\* sqlite3.Error (file locked, unreadable, disk full).  The failed statement
\* commits nothing.

\* db = Database() raises: the call is before the try of the account loop,
\* so the exception leaves main.
DatabaseError ==
    /\ pc \in {"idle", "done"}
    /\ SLACK_WEBHOOK # "" /\ ACCOUNTS # <<>>
    /\ pc' = "crashed"
    /\ UNCHANGED <<config, table, acct, video, pending, new_alerts, total_videos,
                   history, seen, rising, dbtrace>>

\* `raise` in the handler of __main__ ends the process; the scheduler starts
\* the next run from scratch.
ProcessExit ==
    /\ pc = "crashed"
    /\ pc' = "idle"
    /\ UNCHANGED <<config, table, acct, video, pending, new_alerts, total_videos,
                   history, seen, rising, dbtrace>>

\* Variant: the try/except is inside `for video in videos`, so a failed save
\* only skips its record.
SaveErrorSkipsRecord ==
    /\ pc = "save"
    /\ NextVideo
    /\ UNCHANGED <<config, table, new_alerts, total_videos, history, dbtrace>>

\* db.save raises: `except Exception` of the account loop, next account.
SaveError ==
    /\ pc = "save"
    /\ NextAccount
    /\ UNCHANGED <<config, table, new_alerts, total_videos, history, dbtrace>>

\* db.should_alert raises: `except Exception` of the account loop.
ShouldAlertError ==
    /\ pc = "should_alert"
    /\ NextAccount
    /\ UNCHANGED <<config, table, new_alerts, total_videos, history, dbtrace>>

\* db.mark_sent raises: `except Exception` of the account loop; new_alerts
\* is not incremented.
MarkSentError ==
    /\ pc = "mark_sent"
    /\ NextAccount
    /\ UNCHANGED <<config, table, new_alerts, total_videos, history, dbtrace>>

NextStorage ==
    \/ Next
    \/ DatabaseError
    \/ ProcessExit
    \/ SaveError
    \/ ShouldAlertError
    \/ MarkSentError

SpecStorage == Init /\ [][NextStorage]_vars

\* ---- the Database methods called directly -------------------------------
\* Any sequence of save, should_alert and mark_sent with any arguments, on
\* the database a fresh Database() opens.
InitDb ==
    /\ Init
    /\ SLACK_WEBHOOK = "https://hooks"
    /\ ACCOUNTS = <<"a">>

DbSave ==
    \E v \in VideoIds, u \in Usernames, n \in Views \cup {None} :
        /\ table' = save(table, v, u, n)
        /\ call' = [name |-> "save", video_id |-> v, username |-> u,
                    views |-> n, result |-> "None"]
        /\ sinceMark' = {}
        /\ before' = table
        /\ UNCHANGED <<notify, fetch, mainvars>>

\* Variant: should_alert claims the alert, it marks the row when it answers
\* True.
DbShouldAlertClaims ==
    \E v \in VideoIds, n \in Views \cup {None} :
        /\ call' = [name |-> "should_alert", video_id |-> v, username |-> "",
                    views |-> n,
                    result |-> IF should_alert_raises(n) THEN "TypeError"
                               ELSE IF should_alert(table, v, n) THEN "True"
                               ELSE "False"]
        /\ table' = IF should_alert(table, v, n) THEN mark_sent(table, v) ELSE table
        /\ before' = table
        /\ UNCHANGED <<sinceMark, notify, fetch, mainvars>>

DbShouldAlert ==
    \E v \in VideoIds, n \in Views \cup {None} :
        /\ call' = [name |-> "should_alert", video_id |-> v, username |-> "",
                    views |-> n,
                    result |-> IF should_alert_raises(n) THEN "TypeError"
                               ELSE IF should_alert(table, v, n) THEN "True"
                               ELSE "False"]
        /\ table' = table
        /\ before' = table
        /\ UNCHANGED <<sinceMark, notify, fetch, mainvars>>

DbMarkSent ==
    \E v \in VideoIds :
        /\ table' = mark_sent(table, v)
        /\ call' = [name |-> "mark_sent", video_id |-> v, username |-> "",
                    views |-> 0, result |-> "None"]
        /\ sinceMark' = (IF table' = table THEN sinceMark ELSE {})
                            \cup {w \in {v} : ~fetchone_is_none(table, v)}
        /\ before' = table
        /\ UNCHANGED <<notify, fetch, mainvars>>

NextDb ==
    \/ DbSave
    \/ DbShouldAlert
    \/ DbMarkSent

SpecDb == InitDb /\ [][NextDb]_vars

\* ---- send_slack_alert called directly ----------------------------------
\* Any webhook setting, any record the normalizer builds from a content
\* file, any behaviour of requests.post.
Notify ==
    \E webhook \in Webhooks, desc \in Descs, response \in Responses,
       file \in {f \in FileStates : f.has_file} :
        /\ notify' = [webhook |-> webhook, desc |-> desc, file |-> file,
                      response |-> response,
                      result |-> send_slack_alert_outcome(
                                     webhook, title(desc), play_count(file), response)]
        /\ UNCHANGED <<table, call, sinceMark, before, fetch, mainvars>>

SpecNotify == InitDb /\ [][Notify]_vars

\* ---- get_videos called directly ----------------------------------------
\* Item lists of up to MaxItems posts, longer than the limit of 10: a run of
\* posts of one id in which up to two posts are replaced by a post of any id
\* or by a post without id.
ItemLists ==
    {<<>>} \cup UNION {
        {[k \in 1..n |-> IF k = i THEN x ELSE IF k = j THEN y ELSE b]
            : i \in 1..n, j \in 1..n, b \in VideoIds,
              x \in VideoIds \cup {NoId}, y \in VideoIds \cup {NoId}}
        : n \in 1..MaxItems}

\* One call in a behaviour: the result depends on nothing an earlier call
\* left behind.
\* What the scraper produced for the call is as in RawFetches, with the long
\* lists.
GetVideosCall ==
    /\ fetch = NoFetch
    /\ \E o \in {"ok", "error", "nodata"}, it \in ItemLists,
          c \in [VideoIds -> FileStates] :
          LET raw == IF o = "nodata"
                       THEN [outcome |-> o, items |-> <<>>, content |-> NoFetch.content]
                       ELSE [outcome |-> o, items |-> it, content |-> c]
          IN  fetch' = [username |-> ACCOUNTS[1], outcome |-> raw.outcome,
                        items |-> raw.items, content |-> raw.content,
                        result |-> get_videos(ACCOUNTS[1], raw)]
    /\ UNCHANGED <<table, call, sinceMark, before, notify, mainvars>>

SpecFetch == InitDb /\ [][GetVideosCall]_vars

\* ======================================================================
\* Claims
\* ======================================================================

\* C1: for every video id (watched stands for any one of them) the notifier delivers
\* at most once: once a delivery for the id has succeeded (and mark_sent has
\* run), no later record of that id, in the same run or in a later poll,
\* reaches the notification attempt.
C1_NoRepeatedAlert ==
    pc = "send_slack_alert" => video.video_id \notin delivered

\* C2: Database.save never changes alert_sent of an existing row: a row that
\* has alert_sent = 1 before save(video_id, username, views) has it after.
C2_SaveKeepsAlertSent ==
    [][(/\ call'.name = "save"
        /\ \E r \in table : r.video_id = call'.video_id /\ r.alert_sent = 1)
       => \E q \in table' : q.video_id = call'.video_id /\ q.alert_sent = 1]_vars

\* C3: ALERTED is terminal: in every step of the orchestrator a row that has
\* alert_sent = 1 still has alert_sent = 1 afterwards.
C3_AlertedIsTerminal ==
    [][\A r \in table : r.alert_sent = 1
          => \E q \in table' : q.video_id = r.video_id /\ q.alert_sent = 1]_vars

\* C4: after mark_sent(v) on an existing row, every should_alert(v, views)
\* called while the storage is unchanged returns False, for every view count.
C4_NoAlertAfterMarkSent ==
    (/\ call.name = "should_alert"
     /\ call.video_id \in sinceMark
     /\ call.views \in Views)
        => call.result = "False"

C4_Witness ==
    /\ call.name = "should_alert"
    /\ call.video_id \in sinceMark
    /\ call.views \in Views /\ call.views >= THRESHOLD
    /\ call.result = "False"

\* C5: should_alert(video_id, views) returns True exactly when views is at
\* least THRESHOLD and the table has no row for video_id or only an unsent
\* one.
C5_ShouldAlertIff ==
    (call.name = "should_alert" /\ call.views \in Views)
        => /\ call.result \in {"True", "False"}
           /\ call.result = "True"
                <=> /\ call.views >= THRESHOLD
                    /\ \A r \in table : r.video_id = call.video_id => r.alert_sent = 0

C5_Witness ==
    /\ call.name = "should_alert"
    /\ call.views \in Views /\ call.views >= THRESHOLD
    /\ call.result = "True"
    /\ \E r \in table : r.video_id = call.video_id /\ r.alert_sent = 0
    /\ \E r \in table : r.video_id # call.video_id /\ r.alert_sent = 1

\* C6: a record whose view count is below the threshold (a missing playCount
\* counts as zero) never triggers an alert: should_alert is False for it, the
\* orchestrator goes on without a notification attempt or mark_sent, and only
\* records at or above the threshold are ever at those two steps.
C6_BelowThresholdNeverAlerts ==
    /\ [](\A u \in Usernames : \A v \in VideoIds :
            LET raw == [outcome |-> "ok", items |-> <<v>>,
                        content |-> [w \in VideoIds |->
                            [has_file |-> w = v, has_playCount |-> FALSE,
                             playCount |-> 0]]]
            IN  /\ get_videos(u, raw) # <<>>
                /\ get_videos(u, raw)[1].views = 0
                /\ \A db \in {{}, table} : ~should_alert(db, v, 0))
    /\ []((pc \in {"send_slack_alert", "mark_sent"})
            => (video.views \in Views /\ video.views >= THRESHOLD))
    /\ [][(pc = "should_alert" /\ video.views \in Views /\ video.views < THRESHOLD)
            => /\ ~should_alert(table, video.video_id, video.views)
               /\ pc' \notin {"send_slack_alert", "mark_sent"}
               /\ table' = table
               /\ new_alerts' = new_alerts
               /\ delivered' = delivered]_vars

C6_Witness ==
    /\ pc = "should_alert"
    /\ video.views \in Views /\ video.views < THRESHOLD
    /\ video.video_id \in delivered

\* C7: a row with alert_sent = 1 (of watched, which stands for any id) belongs to
\* an id whose notification was delivered (send_slack_alert returned True),
\* and mark_sent is only reached from a notification attempt of the same
\* record that returned True.
C7_MarkedOnlyAfterDelivery ==
    /\ [](\A r \in table :
            (r.video_id = watched /\ r.alert_sent = 1) => r.video_id \in delivered)
    /\ [][pc' = "mark_sent"
            => /\ pc = "send_slack_alert"
               /\ video' = video
               /\ video.video_id = watched
                    => /\ video.video_id \in delivered'
                       /\ video.video_id \notin failed']_vars

C7_Witness ==
    /\ \E r \in table : r.alert_sent = 1 /\ r.video_id \in delivered
    /\ \E r \in table : r.alert_sent = 0 /\ r.video_id # watched

\* C8 as stated: after a failed delivery for an id the row of the id is
\* unsent at the end of that poll and no second notification attempt for the
\* id is made in the same run.
C8_NoSecondAttemptInRun ==
    /\ pc = "send_slack_alert" => video.video_id \notin failedNow
    /\ pc = "done" =>
          \A r \in table : r.video_id \in failedNow => r.alert_sent = 0

\* C8 amended: a failed delivery is followed by no mark_sent and no retry for
\* that record, and leaves the row unsent; the row of an id whose latest
\* delivery failed stays unsent; every later record of that id at or above
\* the threshold that the loop evaluates (in the same run when the id is seen
\* again, or in a later poll) gets a notification attempt; a successful
\* delivery is followed by mark_sent, which leaves the row sent.
C8_FailedDeliveryIsRetried ==
    /\ [](\A r \in table : r.video_id \in failed => r.alert_sent = 0)
    /\ [][(pc = "send_slack_alert" /\ video.video_id \in failed')
            => /\ pc' \in {"save", "get_videos", "done"}
               /\ table' = table
               /\ new_alerts' = new_alerts
               /\ \E r \in table' : r.video_id = video.video_id /\ r.alert_sent = 0]_vars
    /\ [][(/\ pc = "should_alert"
           /\ video.video_id \in failed
           /\ video.views \in Views /\ video.views >= THRESHOLD)
            => pc' = "send_slack_alert" /\ video' = video]_vars
    /\ [][(/\ pc = "send_slack_alert"
           /\ video.video_id = watched
           /\ video.video_id \notin failed')
            => pc' = "mark_sent" /\ video' = video]_vars
    /\ [][pc = "mark_sent"
            => \E r \in table' : r.video_id = video.video_id /\ r.alert_sent = 1]_vars

C8_Witness ==
    /\ pc = "send_slack_alert"
    /\ video.video_id \in failed
    /\ video.video_id \notin failedNow

\* C9: a record at or above the threshold whose row, stored earlier, was
\* below the threshold and unsent gets a notification attempt: the decision
\* uses the count of the record being processed.
C9_CrossingThresholdAlerts ==
    [][(pc = "should_alert" /\ rising)
          => /\ should_alert(table, video.video_id, video.views)
             /\ pc' = "send_slack_alert"
             /\ video' = video]_vars

C9_Witness ==
    /\ pc = "send_slack_alert"
    /\ rising
    /\ total_videos = 1
    /\ video.views = THRESHOLD

\* C10: a fetch that raises does not end the run: the account adds nothing
\* to total_videos, no row is written, and main goes on to the next account
\* (or to the totals) as after an empty list.
C10_FetchErrorIsEmptyList ==
    [][(pc = "get_videos" /\ lastFetch' = "error")
          => /\ total_videos' = total_videos
             /\ table' = table
             /\ new_alerts' = new_alerts
             /\ video' = NoVideo /\ pending' = 0
             /\ IF acct < Len(ACCOUNTS)
                  THEN pc' = "get_videos" /\ acct' = acct + 1
                  ELSE pc' = "done" /\ acct' = acct]_vars

C10_Witness ==
    /\ pc = "get_videos"
    /\ acct = 2
    /\ lastFetch = "error"
    /\ total_videos = 0
    /\ table # {}

\* C11: with an empty webhook URL or an empty account list main returns
\* before any processing: it never gets to Database() or to an account, no
\* account is fetched, nothing is sent, and the ledger stays as it was (here:
\* never created).
C11_ConfigErrorDoesNothing ==
    (SLACK_WEBHOOK = "" \/ ACCOUNTS = <<>>)
        => /\ pc \in {"idle", "done"}
           /\ table = {}
           /\ lastFetch = "none"
           /\ acct = 0 /\ video = NoVideo
           /\ total_videos = 0 /\ new_alerts = 0
           /\ delivered = {} /\ failed = {}

C11_Witness ==
    /\ pc = "done"
    /\ SLACK_WEBHOOK = ""
    /\ ACCOUNTS # <<>>

\* C12: a storage failure in any ledger operation, the opening of the ledger
\* included, never lets an exception leave main.
C12_StorageErrorNeverCrashes ==
    pc # "crashed"

\* C13 as stated: when a ledger operation fails for one video, the next video
\* of the same account is processed.  (A step from save that does not reach
\* should_alert, a step from mark_sent that does not count the alert, and a
\* step from should_alert that leaves an account with records pending are
\* the steps in which the operation raised.)
C13_StorageErrorSkipsOneRecord ==
    [][(/\ pending > 0
        /\ \/ pc = "save" /\ pc' # "should_alert"
           \/ pc = "mark_sent" /\ new_alerts' = new_alerts
           \/ /\ pc = "should_alert" /\ video.views # None
              /\ pc' \in {"get_videos", "done"})
          => pc' = "save" /\ pending' = pending - 1 /\ acct' = acct]_vars

\* C13 amended: a failed save, should_alert or mark_sent ends the processing
\* of its account: the records still pending are dropped, the counters keep
\* their values and main goes on with the next account, or with the totals
\* after the last one; it never leaves main.
C13_StorageErrorEndsAccount ==
    /\ [][(pc \in {"save", "should_alert", "send_slack_alert", "mark_sent"})
            => pc' # "crashed"]_vars
    /\ [][(\/ pc = "save" /\ pc' # "should_alert"
           \/ pc = "mark_sent" /\ new_alerts' = new_alerts
           \/ /\ pc = "should_alert" /\ video.views # None /\ pending > 0
              /\ pc' \in {"get_videos", "done"})
            => /\ video' = NoVideo /\ pending' = 0
               /\ new_alerts' = new_alerts /\ total_videos' = total_videos
               /\ IF acct < Len(ACCOUNTS)
                    THEN pc' = "get_videos" /\ acct' = acct + 1
                    ELSE pc' = "done" /\ acct' = acct]_vars

C13_Witness ==
    /\ pc = "get_videos"
    /\ acct = 2
    /\ total_videos = 2
    /\ table = {}

\* C14: send_slack_alert never raises for a record of the normalizer, a
\* null or absent title or view count included; it returns True only when
\* the webhook answered with status 200.
C14_NotifierNeverRaises ==
    /\ notify.result # "TypeError"
    /\ notify.result = "True"
          => ~notify.response.raised /\ notify.response.status_code = HTTP_OK

\* C15: after any sequence of save and mark_sent calls the table holds at
\* most one row per video_id.
C15_OneRowPerVideoId ==
    \A r \in table : \A q \in table : r.video_id = q.video_id => r = q

C15_Witness ==
    /\ call.name = "save"
    /\ \E r \in before :
          /\ r.video_id = call.video_id
          /\ r.username # call.username
          /\ r.views # call.views

\* C16: mark_sent is idempotent.  After mark_sent(v) the table is the table
\* before it with alert_sent = 1 in the row of v and every other column and
\* row as it was; a further mark_sent(v) changes nothing.
C16_MarkSentIdempotent ==
    /\ [](call.name = "mark_sent"
            => /\ mark_sent(table, call.video_id) = table
               /\ table = {r \in before : r.video_id # call.video_id}
                            \cup {[video_id |-> r.video_id, username |-> r.username,
                                   views |-> r.views, alert_sent |-> 1]
                                    : r \in {q \in before : q.video_id = call.video_id}})
    /\ [][(/\ call.name = "mark_sent" /\ call'.name = "mark_sent"
           /\ call'.video_id = call.video_id)
            => table' = table]_vars

C16_Witness ==
    /\ call.name = "mark_sent"
    /\ before = table
    /\ \E r \in table : r.video_id = call.video_id /\ r.views >= THRESHOLD
    /\ \E r \in table : r.video_id # call.video_id /\ r.alert_sent = 0

\* C20: should_alert only reads: the table after the call is the table
\* before it, and a second call with the same arguments gives the same
\* result.
C20_ShouldAlertOnlyReads ==
    /\ [](call.name = "should_alert" => table = before)
    /\ [][(/\ call.name = "should_alert" /\ call'.name = "should_alert"
           /\ call'.video_id = call.video_id /\ call'.views = call.views)
            => call'.result = call.result /\ table' = table]_vars

C20_Witness ==
    /\ call.name = "should_alert"
    /\ call.result = "True"
    /\ \E r \in table : r.video_id = call.video_id /\ r.alert_sent = 0

C18_OneRecordPerIdentifiedPost ==
    fetch.outcome = "ok" =>
        LET n == IF Len(fetch.items) < RecentLimit THEN Len(fetch.items) ELSE RecentLimit
            posts == SelectSeq(SubSeq(fetch.items, 1, n), LAMBDA x : x # NoId)
        IN  /\ Len(fetch.result) = Len(posts)
            /\ \A k \in 1..Len(posts) : fetch.result[k].video_id = posts[k]

\* C18 amended: a successful get_videos returns one record for each of the
\* first 10 posts that has an id and whose content file exists, in post
\* order, with the account and the playCount of that file (0 without the
\* key); never more than 10 records, never a record without video_id.
C18_OneRecordPerResolvedPost ==
    fetch.outcome = "ok" =>
        LET n == IF Len(fetch.items) < RecentLimit THEN Len(fetch.items) ELSE RecentLimit
            posts == SelectSeq(SubSeq(fetch.items, 1, n),
                               LAMBDA x : x # NoId /\ fetch.content[x].has_file)
        IN  /\ Len(fetch.result) = Len(posts)
            /\ Len(fetch.result) <= RecentLimit
            /\ \A k \in 1..Len(fetch.result) :
                  /\ fetch.result[k].video_id = posts[k]
                  /\ fetch.result[k].video_id # NoId
                  /\ fetch.result[k].username = fetch.username
                  /\ fetch.result[k].views =
                        IF fetch.content[posts[k]].has_playCount
                          THEN fetch.content[posts[k]].playCount ELSE 0

C18_Witness ==
    /\ fetch.outcome = "ok"
    /\ Len(fetch.items) > RecentLimit
    /\ fetch.items[RecentLimit + 1] # NoId
    /\ fetch.content[fetch.items[RecentLimit + 1]].has_file
    /\ \E i \in 1..RecentLimit : fetch.items[i] = NoId
    /\ \E j \in 1..RecentLimit :
          fetch.items[j] # NoId /\ ~fetch.content[fetch.items[j]].has_file
    /\ Len(fetch.result) = RecentLimit - 2

\* C19: with a valid configuration a run processes the accounts once each in
\* the configured order and then reports the totals; total_videos grows by
\* the number of records of each fetch; new_alerts grows by one for each
\* successful delivery and, when the run ends, equals the number of videos
\* whose alert_sent this run set.
C19_RunTotals ==
    /\ []((pc = "done" /\ SLACK_WEBHOOK # "" /\ ACCOUNTS # <<>>)
            => /\ acct = Len(ACCOUNTS)
               /\ new_alerts = Cardinality(markedNow))
    /\ [][acct' # acct
            => IF pc \in {"idle", "done"} THEN acct' = 1 ELSE acct' = acct + 1]_vars
    /\ [][pc = "get_videos"
            => total_videos' = total_videos + (IF pc' = "save" THEN pending' + 1 ELSE 0)]_vars
    /\ [][(pc = "send_slack_alert" => new_alerts' = new_alerts)
          /\ (pc' = "mark_sent" => pc = "send_slack_alert" /\ video.video_id \notin failed')]_vars
    /\ [][pc = "mark_sent" => new_alerts' = new_alerts + 1]_vars

====
